---------------------------- MODULE Spec2Model ----------------------------
(***************************************************************************)
(* A model of gitgraph (src/gitgraph/main.py): the commit walk and the     *)
(* gap-filling pass of retrieve_repo_activity, and draw_activity's         *)
(* windowing, colouring, layout and output.                                *)
(*                                                                         *)
(* Calendar dates are day numbers (integers); a timedelta is a difference  *)
(* of day numbers.  A ratio nb / m is kept as the pair <<nb, m>> and       *)
(* compared with a limit given in hundredths by cross-multiplication,      *)
(* which agrees with the float comparison for the counts considered.       *)
(* The colour table is iterated in its insertion order (the dict order of  *)
(* Python 3.7 and later).                                                  *)
(***************************************************************************)
EXTENDS Integers, Sequences, FiniteSets, TLC

VARIABLES
    pc,                      \* "walk" | "returned" | "drawn"
    clock,                   \* the calendar date datetime.date.today() returns now
    ticks,                   \* how many times the clock's date has advanced
    walked,                  \* the commit dates repo.walk has yielded so far, in order
    per_day_commits,         \* delta.days -> [date, commits]
    nb_commits,
    previous_date,
    first,
    last,
    continuous_days_commits, \* the list built by the gap-filling pass
    data,                    \* the returned 'continuous_days_commits' (reversed)
    days,                    \* draw_activity's window of days
    max_commits,             \* draw_activity's maximum over the window
    sink,                    \* the f draw_activity was called with
    out                      \* what each stream has received

vars == <<pc, clock, ticks, walked, per_day_commits, nb_commits, previous_date,
          first, last, continuous_days_commits, data, days, max_commits, sink, out>>

-----------------------------------------------------------------------------
(* Bounds *)

MaxCommits == 3

MaxTicks == 1

Today0 == 170

MaxCount == 5

-----------------------------------------------------------------------------
(* Program constants *)

None == -1

weeks == 24

box_height == 11

box_width == 11

spacing == 2

vertical_boxes == 7

Sinks == {"stdout", "file"}

\* The colour table of compute_color, in insertion order; limits in hundredths.
colors == << <<75, "1e6823">>, <<50, "44a340">>, <<25, "8cc665">>, <<0, "d6e685">> >>

\* The dates a commit of the walk may carry: one more than a window before the
\* initial date, the day before it, that day, and the day after it.
CommitDates == {Today0 - weeks * vertical_boxes - 1, Today0 - 1, Today0, Today0 + 1}

-----------------------------------------------------------------------------
(* Helpers *)

Abs(x) == IF x < 0 THEN -x ELSE x

Min(a, b) == IF a < b THEN a ELSE b

Reversed(s) == [k \in 1..Len(s) |-> s[Len(s) + 1 - k]]

\* s[-n:]
LastN(s, n) == IF Len(s) <= n THEN s ELSE SubSeq(s, Len(s) - n + 1, Len(s))

\* max(list)
MaxOf(S) == CHOOSE x \in S : \A y \in S : y <= x

-----------------------------------------------------------------------------
(* days_range *)

days_range(start, end) ==
    LET delta == end - start
    IN  [k \in 1..(Abs(delta) + 1) |->
            IF delta > 0 THEN start + (k - 1) ELSE start - (k - 1)]

-----------------------------------------------------------------------------
(* compute_color *)

Ratio(nb, m) == IF m > 0 THEN <<nb, m>> ELSE <<0, 1>>

ExceedsAtOrAbove(ratio, limit) == ratio[1] * 100 >= limit * ratio[2]

ExceedsFlipped(ratio, limit) == ratio[1] * 100 < limit * ratio[2]

\* ratio > float(limit)
Exceeds(ratio, limit) == ratio[1] * 100 > limit * ratio[2]

RECURSIVE SelectColor(_, _, _)
SelectColor(ratio, k, color) ==
    IF k > Len(colors) THEN color
    ELSE IF Exceeds(ratio, colors[k][1]) THEN colors[k][2]
    ELSE SelectColor(ratio, k + 1, color)

compute_color(nb, m) == <<"#", SelectColor(Ratio(nb, m), 1, "eee")>>

-----------------------------------------------------------------------------
(* retrieve_repo_activity *)

\* One iteration of the commit walk on the mapping.
WalkBody(pdc, commit_date, today_date) ==
    LET delta == today_date - commit_date
        base  == IF delta \notin DOMAIN pdc
                 THEN pdc @@ (delta :> [date |-> commit_date, commits |-> 0])
                 ELSE pdc
    IN  [base EXCEPT ![delta].commits = @ + 1]

\* The gap-filling pass.
FillBody(pdc, fst, lst) ==
    LET dr == days_range(fst, lst)
    IN  [k \in 1..Len(dr) |->
            LET day   == dr[k]
                delta == lst - day
            IN  [date    |-> day,
                 commits |-> IF delta \in DOMAIN pdc THEN pdc[delta].commits ELSE 0]]

Init ==
    /\ pc = "walk"
    /\ clock = Today0
    /\ ticks = 0
    /\ walked = <<>>
    /\ per_day_commits = <<>>
    /\ nb_commits = 0
    /\ previous_date = None
    /\ first = None
    /\ last = None
    /\ continuous_days_commits = <<>>
    /\ data = <<>>
    /\ days = <<>>
    /\ max_commits = 0
    /\ sink = "stdout"
    /\ out = [s \in Sinks |-> <<>>]

\* The calendar date changes while the program runs.
Tick ==
    /\ pc = "walk"
    /\ ticks < MaxTicks
    /\ clock' = clock + 1
    /\ ticks' = ticks + 1
    /\ UNCHANGED <<pc, walked, per_day_commits, nb_commits, previous_date, first,
                   last, continuous_days_commits, data, days, max_commits, sink, out>>

\* One iteration of the for loop over repo.walk.
WalkStep(commit_date) ==
    /\ pc = "walk"
    /\ Len(walked) < MaxCommits
    /\ LET today_date == clock
       IN  per_day_commits' = WalkBody(per_day_commits, commit_date, today_date)
    /\ nb_commits' = nb_commits + 1
    /\ previous_date' = commit_date
    /\ walked' = Append(walked, commit_date)
    /\ UNCHANGED <<pc, clock, ticks, first, last, continuous_days_commits, data,
                   days, max_commits, sink, out>>

\* The walk is over (it yields the head commit at least): fill and return.
Retrieve ==
    /\ pc = "walk"
    /\ walked # <<>>
    /\ first' = previous_date
    /\ last' = clock
    /\ continuous_days_commits' = FillBody(per_day_commits, first', last')
    /\ data' = Reversed(continuous_days_commits')
    /\ pc' = "returned"
    /\ UNCHANGED <<clock, ticks, walked, per_day_commits, nb_commits,
                   previous_date, days, max_commits, sink, out>>

-----------------------------------------------------------------------------
(* draw_activity *)

WindowOldest(ds) == SubSeq(Reversed(ds), 1, Min(Len(ds), weeks * vertical_boxes))

\* days = list(reversed(days))[-(weeks*7):]
Window(ds) == LastN(Reversed(ds), weeks * vertical_boxes)

StrokeFirst(n, len) == IF n = 0 THEN "stroke-width:1px;stroke:red" ELSE ""

\* "stroke-width:1px;stroke:red" if n == len(days) - 1 else ""
Stroke(n, len) == IF n = len - 1 THEN "stroke-width:1px;stroke:red" ELSE ""

\* '{} commits'.format(day['commits'])
Label(commits) == <<commits, "commits">>

Header(len) ==
    [kind   |-> "header",
     width  |-> ((len + vertical_boxes) * (box_width + spacing)) \div vertical_boxes,
     height |-> box_height * (vertical_boxes + spacing)]

Cell(day, n, len, m) ==
    [kind   |-> "cell",
     x      |-> (n \div vertical_boxes) * (box_width + spacing),
     y      |-> (n % vertical_boxes) * (box_height + spacing),
     fill   |-> compute_color(day.commits, m),
     stroke |-> Stroke(n, len),
     date   |-> day.date,
     label  |-> Label(day.commits)]

Footer == [kind |-> "footer"]

\* The three print calls: the header and the cells go to f, the footer to
\* sys.stdout.
Emit(o, f, ds, m) ==
    LET written == [o EXCEPT ![f] = @ \o <<Header(Len(ds))>>
                                      \o [k \in 1..Len(ds) |-> Cell(ds[k], k - 1, Len(ds), m)]]
    IN  [written EXCEPT !["stdout"] = @ \o <<Footer>>]

draw_activity(f) ==
    /\ pc = "returned"
    /\ days' = Window(data)
    /\ max_commits' = MaxOf({days'[k].commits : k \in 1..Len(days')})
    /\ out' = Emit(out, f, days', max_commits')
    /\ sink' = f
    /\ pc' = "drawn"
    /\ UNCHANGED <<clock, ticks, walked, per_day_commits, nb_commits,
                   previous_date, first, last, continuous_days_commits, data>>

-----------------------------------------------------------------------------
(* Specifications *)

Next ==
    \/ Tick
    \/ \E d \in CommitDates : WalkStep(d)
    \/ Retrieve
    \/ \E f \in Sinks : draw_activity(f)

Spec == Init /\ [][Next]_vars

-----------------------------------------------------------------------------
(* draw_activity on its own: it is called with a timeline as returned by   *)
(* retrieve_repo_activity (most recent day first), here one ending at      *)
(* Today0 whose oldest bucket holds cf >= 1 commits, whose newest holds cl *)
(* and the one before it cp, every other day being empty.                  *)

DrawLengths == {1, 2, 3, weeks * vertical_boxes + 2}

Timeline(L, cf, cp, cl) ==
    [k \in 1..L |->
        [date    |-> Today0 - L + k,
         commits |-> IF k = 1 THEN cf
                     ELSE IF k = L THEN cl
                     ELSE IF k = L - 1 THEN cp
                     ELSE 0]]

InitDraw ==
    /\ pc = "returned"
    /\ clock = Today0
    /\ ticks = 0
    /\ walked = <<>>
    /\ per_day_commits = <<>>
    /\ nb_commits = 0
    /\ previous_date = None
    /\ last = Today0
    /\ \E L \in DrawLengths, cf \in 1..MaxCount, cp \in 0..MaxCount, cl \in 0..MaxCount :
          /\ (L < 3 => cp = 0)
          /\ (L < 2 => cl = 0)
          /\ continuous_days_commits = Timeline(L, cf, cp, cl)
          /\ first = Today0 - L + 1
    /\ data = Reversed(continuous_days_commits)
    /\ days = <<>>
    /\ max_commits = 0
    /\ sink = "stdout"
    /\ out = [s \in Sinks |-> <<>>]

NextDraw == \E f \in Sinks : draw_activity(f)

SpecDraw == InitDraw /\ [][NextDraw]_vars

-----------------------------------------------------------------------------
(* Vocabulary of the properties *)

Returned == pc \in {"returned", "drawn"}

Drawn == pc = "drawn"

\* The cells written to the sink draw_activity was given, in emission order.
Cells == SelectSeq(out[sink], LAMBDA r : r.kind = "cell")

Dates(seq) == {seq[k] : k \in DOMAIN seq}

Earliest(seq) == CHOOSE d \in Dates(seq) : \A e \in Dates(seq) : d <= e

Occurrences(seq, d) == Cardinality({i \in DOMAIN seq : seq[i] = d})

\* The sum of the commits of the buckets at the indices idx.
RECURSIVE SumAt(_, _)
SumAt(buckets, idx) ==
    IF idx = {} THEN 0
    ELSE LET k == CHOOSE i \in idx : TRUE
         IN  buckets[k].commits + SumAt(buckets, idx \ {k})

\* The sum of the commits of all buckets (empty buckets add nothing).
SumCommits(buckets) == SumAt(buckets, {k \in DOMAIN buckets : buckets[k].commits # 0})

\* The clock's date did not change during the run and no commit is dated after it.
SettledRun == ticks = 0 /\ \A i \in DOMAIN walked : walked[i] <= last

\* retrieve_repo_activity on a whole walk, with one current date throughout.
RECURSIVE WalkAll(_, _, _)
WalkAll(seq, k, today) ==
    IF k = 0 THEN <<>> ELSE WalkBody(WalkAll(seq, k - 1, today), seq[k], today)

TimelineOf(seq, today) == FillBody(WalkAll(seq, Len(seq), today), seq[Len(seq)], today)

Orderings(seq) ==
    LET n == Len(seq)
        P == {f \in [1..n -> 1..n] : \A i, j \in 1..n : f[i] = f[j] => i = j}
    IN  {[k \in 1..n |-> seq[f[k]]] : f \in P}

\* The tier function of the colour-bucketing rule, thresholds in fractions.
RefTier(nb, m) ==
    IF m > 0 /\ 4 * nb > 3 * m THEN <<"#", "1e6823">>
    ELSE IF m > 0 /\ 2 * nb > m THEN <<"#", "44a340">>
    ELSE IF m > 0 /\ 4 * nb > m THEN <<"#", "8cc665">>
    ELSE IF m > 0 /\ nb > 0 THEN <<"#", "d6e685">>
    ELSE <<"#", "eee">>

\* How dark a fill is: 0 for the neutral tier, 4 for the darkest.
Darkness(fill) ==
    CASE fill[2] = "eee"    -> 0
      [] fill[2] = "d6e685" -> 1
      [] fill[2] = "8cc665" -> 2
      [] fill[2] = "44a340" -> 3
      [] fill[2] = "1e6823" -> 4

Highlighted(cells) == {k \in DOMAIN cells : cells[k].stroke # ""}

WindowMaxOf(ds) == MaxOf({ds[k].commits : k \in DOMAIN ds})

-----------------------------------------------------------------------------
(* Properties *)

\* C1 (Gaplessness): when the clock's date does not change during the run and
\* no commit is dated after it, the timeline holds exactly one bucket for each
\* date from the earliest commit date through the current date, and no other.
C1_Gapless ==
    (Returned /\ SettledRun) =>
        LET e == Earliest(walked)
        IN  /\ Len(continuous_days_commits) = last - e + 1
            /\ \A d \in e..last :
                  Cardinality({k \in DOMAIN continuous_days_commits :
                                  continuous_days_commits[k].date = d}) = 1

\* C2 (Count conservation): under the same conditions, the commits of all
\* buckets of the timeline sum to the number of commits walked.
C2_CountConserved ==
    (Returned /\ SettledRun) =>
        SumCommits(continuous_days_commits) = Len(walked)

\* C3 (Order-independence): under the same conditions, every reordering of
\* the walked commit dates yields the timeline this run produced.
C3_OrderIndependent ==
    (Returned /\ SettledRun) =>
        \A seq \in Orderings(walked) : TimelineOf(seq, last) = continuous_days_commits

TiersMatch(cells, ds, m) ==
    \A k \in DOMAIN cells : cells[k].fill = RefTier(ds[k].commits, m)

\* C4 (Colour bucketing): every rendered cell's fill is the reference tier of
\* its commit count nb against the window maximum m (nb <= m): darkest above
\* 0.75, then above 0.50, above 0.25, above 0, and neutral at ratio 0, which
\* is every cell's tier when m = 0.
C4_ColourIsRefTier == Drawn => TiersMatch(Cells, days, WindowMaxOf(days))

OnThreshold(ds, m) == m > 0 /\ \E k \in DOMAIN ds : 4 * ds[k].commits = 3 * m

\* C4 witness: a rendered window with a cell exactly on the 0.75 threshold.
C4_Witness == Drawn /\ OnThreshold(days, WindowMaxOf(days))

StrictlyDarker(cells, ds) ==
    \A i, j \in DOMAIN cells :
        ds[i].commits > ds[j].commits =>
            Darkness(cells[i].fill) > Darkness(cells[j].fill)

\* C5 as stated (Colour monotonicity): of two cells of a window, the one with
\* more commits gets a strictly darker tier.
C5_StrictlyDarker == Drawn => StrictlyDarker(Cells, days)

NeverLighter(cells, ds) ==
    \A i, j \in DOMAIN cells :
        ds[i].commits > ds[j].commits =>
            Darkness(cells[i].fill) >= Darkness(cells[j].fill)

\* C5 amended: of two cells of a window, the one with more commits never gets
\* a lighter tier (the tier is monotonic non-decreasing in the count).
C5_NeverLighter == Drawn => NeverLighter(Cells, days)

SameTierPair(cells, ds) ==
    \E i, j \in DOMAIN cells :
        /\ ds[i].commits > ds[j].commits
        /\ ds[j].commits > 0
        /\ Darkness(cells[i].fill) = Darkness(cells[j].fill)

\* C5 witness: a window with two active cells of different counts in one tier.
C5_Witness == Drawn /\ SameTierPair(Cells, days)

HighlightLatest(cells) ==
    /\ Cardinality(Highlighted(cells)) = 1
    /\ \A k \in Highlighted(cells) : \A j \in DOMAIN cells : cells[j].date <= cells[k].date

HighlightToday(cells) ==
    /\ Cardinality(Highlighted(cells)) = 1
    /\ \A k \in Highlighted(cells) : k = Len(cells) /\ cells[k].date = last

SingularPlural(cells, ds) ==
    \A k \in DOMAIN cells :
        cells[k].label = IF ds[k].commits = 1
                         THEN <<1, "commit">>
                         ELSE <<ds[k].commits, "commits">>

\* C7 (Tooltip wording): a cell's commit-count phrase is "1 commit" for one
\* commit and "N commits" for any other count.
C7_SingularPlural == Drawn => SingularPlural(Cells, days)

\* C8 (Sink confinement): the sink receives the header, the cells and the
\* footer in that order, and no other stream receives anything.
C8_SinkConfined ==
    Drawn =>
        /\ Len(out[sink]) = Len(days) + 2
        /\ out[sink][1].kind = "header"
        /\ out[sink][Len(days) + 2].kind = "footer"
        /\ \A k \in 2..(Len(days) + 1) : out[sink][k].kind = "cell"
        /\ \A o \in Sinks \ {sink} : out[o] = <<>>

BucketCount(d) ==
    LET k == CHOOSE i \in DOMAIN continuous_days_commits :
                 continuous_days_commits[i].date = d
    IN  continuous_days_commits[k].commits

LatestDate == MaxOf({continuous_days_commits[k].date : k \in DOMAIN continuous_days_commits})

\* The cells c are n cells whose dates end at date 'to' in steps of dir, each
\* with its bucket's count, cell p at x = (p div 7) * 13 and y = (p mod 7) * 13.
LaidOut(c, n, to, dir) ==
    /\ Len(c) = n
    /\ \A p \in 0..(n - 1) :
          /\ c[p + 1].date = to - dir * (n - 1 - p)
          /\ c[p + 1].label[1] = BucketCount(c[p + 1].date)
          /\ c[p + 1].x = (p \div 7) * 13
          /\ c[p + 1].y = (p % 7) * 13

C10_StableToday ==
    Returned =>
        \A k \in DOMAIN continuous_days_commits :
            continuous_days_commits[k].commits =
                Occurrences(walked, continuous_days_commits[k].date)

=============================================================================
